---- MODULE Spec2Model ----
(***************************************************************************)
(* The state held by the App component of src/App.tsx (its six persisted   *)
(* collections, the auth error and the pending access-block effect) and    *)
(* its handlers, one action per handler.                                   *)
(*                                                                         *)
(* Representation.  A record keeps the fields the handlers read or write.  *)
(* A 'YYYY-MM-DD' string is the triple <<year, month, day>>; a Date is the *)
(* number of UTC days since 1970-01-01 (every Date the handlers build is   *)
(* at 00:00:00Z and moves by whole days).  null/undefined are Null and     *)
(* Undefined.  Ids made from Date.now() are fresh integers.                *)
(***************************************************************************)
EXTENDS Integers, Sequences, FiniteSets, TLC

VARIABLES
    currentUser,        \* User | null                       (App.tsx:20)
    users,              \* User[]                            (App.tsx:21)
    students,           \* Student[]                         (App.tsx:22)
    leaveApplications,  \* LeaveApplication[]                (App.tsx:23)
    exams,              \* Exam[]                            (App.tsx:24)
    examSubmissions,    \* ExamSubmission[]                  (App.tsx:25)
    authError,          \* string | null                     (App.tsx:28)
    effectPending,      \* the [currentUser] effect is due   (App.tsx:114-146)
    clock,              \* number of ids drawn from Date.now()
    nUpdates,           \* number of updateUser calls
    lastOp,             \* history: the handler that ran last and what it did
    isDataValidated,    \* boolean                          (App.tsx:32)
    fault               \* the exception that unmounted the application, if any

vars == <<currentUser, users, students, leaveApplications, exams,
          examSubmissions, authError, effectPending, clock, nUpdates, lastOp,
          isDataValidated, fault>>

-----------------------------------------------------------------------------
(* Bounds of the model *)

MaxIds == 1          \* ids drawn from Date.now() in a run of the whole application
MaxLeaveApps == 2    \* leave applications made in a run of the leave handlers
MaxSubmissions == 1  \* submissions made in a run of the exam handlers
MaxUpdates == 1      \* updateUser calls
MaxQuestions == 8    \* questions of an exam
MaxStored == 3       \* exam submissions found in the store at start

-----------------------------------------------------------------------------
(* Values *)

Null == [null |-> TRUE]
Undefined == "undefined"

Student == "student"
Teacher == "teacher"
Parent == "parent"
UserRole == {Student, Teacher, Parent}

Present == "Present"
Absent == "Absent"
Late == "Late"

LowAttendance == "Low Attendance"
BehaviourIssue == "Behaviour Issue"
AttendanceAndBehaviour == "Attendance & Behaviour"
NoReason == "null"

\* no exception has escaped; a TypeError has
NoFault == "none"
TypeError == "TypeError"

Pending == "Pending"
Approved == "Approved"
Rejected == "Rejected"

OnApprovedLeave == "On Approved Leave"

Last(s) == s[Len(s)]

\* the ids in a collection
Ids(s) == { s[i].id : i \in 1..Len(s) }

\* an id no record has
UnknownId == 99

IndexSet(s) == 1..Len(s)

\* Array.prototype.findIndex: the first index that satisfies P, 0 for -1.
FindIndex(s, P(_)) ==
    IF \E i \in IndexSet(s) : P(s[i])
    THEN CHOOSE i \in IndexSet(s) : P(s[i]) /\ \A j \in 1..(i - 1) : ~P(s[j])
    ELSE 0

\* Array.prototype.filter
FilterSeq(s, P(_)) == SelectSeq(s, P)

\* Array.prototype.filter(...).length
CountSeq(s, P(_)) == Len(SelectSeq(s, P))

-----------------------------------------------------------------------------
(* Dates: new Date(s + 'T00:00:00Z'), setUTCDate(getUTCDate() + 1) and      *)
(* toISOString().split('T')[0], on the proleptic Gregorian calendar.        *)

IsLeapYear(y) == (y % 4 = 0 /\ y % 100 # 0) \/ y % 400 = 0

DaysInMonth(y, m) ==
    IF m = 2 THEN (IF IsLeapYear(y) THEN 29 ELSE 28)
    ELSE IF m \in {4, 6, 9, 11} THEN 30 ELSE 31

\* new Date('YYYY-MM-DDT00:00:00Z'): days since the epoch of a calendar date.
ParseUTCDate(s) ==
    LET y   == IF s[2] <= 2 THEN s[1] - 1 ELSE s[1]
        era == y \div 400
        yoe == y - era * 400
        mp  == IF s[2] > 2 THEN s[2] - 3 ELSE s[2] + 9
        doy == (153 * mp + 2) \div 5 + s[3] - 1
        doe == yoe * 365 + yoe \div 4 - yoe \div 100 + doy
    IN era * 146097 + doe - 719468

\* d.toISOString().split('T')[0]: the calendar date of a day number.
ToISODateString(d) ==
    LET z   == d + 719468
        era == z \div 146097
        doe == z - era * 146097
        yoe == (doe - doe \div 1460 + doe \div 36524 - doe \div 146096) \div 365
        doy == doe - (365 * yoe + yoe \div 4 - yoe \div 100)
        mp  == (5 * doy + 2) \div 153
        day == doy - (153 * mp + 2) \div 5 + 1
        m   == IF mp < 10 THEN mp + 3 ELSE mp - 9
        y   == yoe + era * 400 + (IF m <= 2 THEN 1 ELSE 0)
    IN <<y, m, day>>

-----------------------------------------------------------------------------
(* Records *)

User(id, name, email, role, childId) ==
    [id |-> id, name |-> name, email |-> email, role |-> role,
     password |-> "pw", mobile |-> Undefined, childId |-> childId]

AttendanceRecord(date, subject, teacherName, timestamp, status) ==
    [date |-> date, subject |-> subject, teacherName |-> teacherName,
     timestamp |-> timestamp, status |-> status]

\* temporaryAccessExpires is "undefined", "future" (> Date.now()) or "past"
StudentRecord(id, name, attendance, isAccessBlocked, blockReason, temporaryAccessExpires) ==
    [id |-> id, name |-> name, attendance |-> attendance,
     isAccessBlocked |-> isAccessBlocked, blockReason |-> blockReason,
     temporaryAccessExpires |-> temporaryAccessExpires]

Op(op, id, arg) == [op |-> op, id |-> id, arg |-> arg]

SetStudentAt(studs, i, s) == [studs EXCEPT ![i] = s]

-----------------------------------------------------------------------------
(* The access-block effect, App.tsx:114-146 *)

totalClasses(studentData) == Len(studentData.attendance)

presentClasses(studentData) ==
    CountSeq(studentData.attendance, LAMBDA a : a.status = Present)

\* (presentClasses / totalClasses) * 100, or 100: the fraction <<numerator, denominator>>.
attendancePercentage(studentData) ==
    IF totalClasses(studentData) > 0
    THEN <<presentClasses(studentData) * 100, totalClasses(studentData)>>
    ELSE <<100, 1>>

\* p < q on fractions with positive denominators
FracLess(p, q) == p[1] * q[2] < q[1] * p[2]

FracLeq(p, q) == p[1] * q[2] <= q[1] * p[2]

isLowAttendanceLeq(studentData) ==
    FracLeq(attendancePercentage(studentData), <<75, 1>>)

isLowAttendance(studentData) ==
    FracLess(attendancePercentage(studentData), <<75, 1>>)

\* lines 129-136: the copy of the student after the two branches
updatedStudentUnblocks(studentData) ==
    IF ~studentData.isAccessBlocked
    THEN [studentData EXCEPT !.isAccessBlocked = TRUE, !.blockReason = LowAttendance]
    ELSE IF studentData.blockReason = BehaviourIssue
    THEN [studentData EXCEPT !.isAccessBlocked = FALSE, !.blockReason = AttendanceAndBehaviour]
    ELSE studentData

updatedStudent(studentData) ==
    IF ~studentData.isAccessBlocked
    THEN [studentData EXCEPT !.isAccessBlocked = TRUE, !.blockReason = LowAttendance]
    ELSE IF studentData.blockReason = BehaviourIssue
    THEN [studentData EXCEPT !.blockReason = AttendanceAndBehaviour]
    ELSE studentData

\* lines 126-136: whether either branch set needsUpdate
needsUpdateAlways(studentData) == TRUE

needsUpdateUnblockedOnly(studentData) == ~studentData.isAccessBlocked

needsUpdate(studentData) ==
    ~studentData.isAccessBlocked \/ studentData.blockReason = BehaviourIssue

\* lines 115-117: the index of the logged-in student, 0 when the effect returns early
EffectStudentIndex(cu, studs) ==
    IF cu # Null /\ cu.role = Student
    THEN FindIndex(studs, LAMBDA s : s.id = cu.id)
    ELSE 0

\* whether the effect calls setStudents (line 141)
EffectWrites(cu, studs) ==
    LET i == EffectStudentIndex(cu, studs)
    IN i # 0 /\ isLowAttendance(studs[i]) /\ needsUpdate(studs[i])

\* the students collection after the effect
AccessBlockEvaluatorClears(cu, studs) ==
    LET i == EffectStudentIndex(cu, studs)
    IN IF EffectWrites(cu, studs)
       THEN SetStudentAt(studs, i, updatedStudent(studs[i]))
       ELSE IF i # 0 /\ ~isLowAttendance(studs[i]) /\ studs[i].blockReason = LowAttendance
       THEN SetStudentAt(studs, i, [studs[i] EXCEPT !.isAccessBlocked = FALSE,
                                                    !.blockReason = NoReason])
       ELSE studs

AccessBlockEvaluator(cu, studs) ==
    IF EffectWrites(cu, studs)
    THEN LET i == EffectStudentIndex(cu, studs)
         IN SetStudentAt(studs, i, updatedStudent(studs[i]))
    ELSE studs

AccessBlockEffect ==
    /\ effectPending
    /\ students' = AccessBlockEvaluator(currentUser, students)
    /\ effectPending' = FALSE
    /\ lastOp' = Op("accessBlockEffect",
                    IF currentUser = Null THEN 0 ELSE currentUser.id,
                    IF EffectWrites(currentUser, students) THEN "write" ELSE "none")
    /\ UNCHANGED <<currentUser, users, leaveApplications, exams, examSubmissions,
                   authError, clock, nUpdates, isDataValidated, fault>>

-----------------------------------------------------------------------------
(* Login, logout, signup and updateUser, App.tsx:148-260 *)

NoError == "null"
InvalidCredentials == "Invalid email or password."
NoMockUser == "No mock user found for role"
UserNotFound == "User not found."
EmailExists == "An account with this email already exists."
ChildEmailMissing == "Please provide your child's email to create a parent account."
NoStudentAccount == "No student account found with the email"

\* the id made from Date.now() at the current clock
FreshId == 100 + clock

\* setCurrentUser(user); setAuthError(null), or setAuthError(message) when find() found nothing
LoginAs(i, message, op) ==
    /\ IF i # 0
       THEN /\ currentUser' = users[i]
            /\ authError' = NoError
            /\ effectPending' = TRUE
            /\ lastOp' = Op(op, users[i].id, "ok")
       ELSE /\ authError' = message
            /\ lastOp' = Op(op, 0, "error")
            /\ UNCHANGED <<currentUser, effectPending>>
    /\ UNCHANGED <<users, students, leaveApplications, exams, examSubmissions,
                   clock, nUpdates, isDataValidated, fault>>

handleLogin(email, pass) ==
    /\ currentUser = Null
    /\ ~effectPending
    /\ LoginAs(FindIndex(users, LAMBDA u : u.email = email /\ u.password = pass),
               InvalidCredentials, "login")

handleSocialLogin(role) ==
    /\ currentUser = Null
    /\ ~effectPending
    /\ LoginAs(FindIndex(users, LAMBDA u : u.role = role), NoMockUser, "socialLogin")

handleProviderLogin(identifier, type) ==
    /\ currentUser = Null
    /\ ~effectPending
    /\ LoginAs(IF type = "email"
               THEN FindIndex(users, LAMBDA u : u.email = identifier)
               ELSE FindIndex(users, LAMBDA u : u.mobile = identifier),
               UserNotFound, "providerLogin")

handleLogout ==
    /\ currentUser # Null
    /\ ~effectPending
    /\ currentUser' = Null
    /\ effectPending' = TRUE
    /\ lastOp' = Op("logout", currentUser.id, "ok")
    /\ UNCHANGED <<users, students, leaveApplications, exams, examSubmissions,
                   authError, clock, nUpdates, isDataValidated, fault>>

\* lines 221-232: the companion Student of a new Student-role user
newStudent(newUser) ==
    StudentRecord(newUser.id, newUser.name, <<>>, FALSE, NoReason, Undefined)

\* line 239, without the test of the role
childUserAnyRole(details) ==
    FindIndex(users, LAMBDA u : u.email = details.childEmail)

\* line 239: the index of childUser, 0 when find() returns undefined
childUser(details) ==
    FindIndex(users, LAMBDA u : u.email = details.childEmail /\ u.role = Student)

handleSignup(details) ==
    /\ currentUser = Null
    /\ ~effectPending
    /\ IF \E i \in IndexSet(users) : users[i].email = details.email
       THEN /\ authError' = EmailExists
            /\ lastOp' = Op("signup", 0, "error")
            /\ UNCHANGED <<currentUser, users, students, effectPending, clock>>
       ELSE LET newUser == [User(FreshId, details.name, details.email, details.role, Undefined)
                              EXCEPT !.password = details.password]
                child == childUser(details)
                added(u) == /\ users' = Append(users, u)
                            /\ currentUser' = u
                            /\ authError' = NoError
                            /\ effectPending' = TRUE
                            /\ clock' = clock + 1
                            /\ lastOp' = Op("signup", u.id, "ok")
            IN  IF newUser.role = Student
                THEN /\ students' = Append(students, newStudent(newUser))
                     /\ added(newUser)
                ELSE IF newUser.role = Parent
                THEN IF details.childEmail \in {Undefined, ""}
                     THEN /\ authError' = ChildEmailMissing
                          /\ lastOp' = Op("signup", 0, "error")
                          /\ UNCHANGED <<currentUser, users, students, effectPending, clock>>
                     ELSE IF child = 0
                     THEN /\ authError' = NoStudentAccount
                          /\ lastOp' = Op("signup", 0, "error")
                          /\ UNCHANGED <<currentUser, users, students, effectPending, clock>>
                     ELSE /\ added([newUser EXCEPT !.childId = users[child].id])
                          /\ UNCHANGED students
                ELSE /\ added(newUser)
                     /\ UNCHANGED students
    /\ UNCHANGED <<leaveApplications, exams, examSubmissions, nUpdates,
                   isDataValidated, fault>>

handleUpdateUser(updatedUser) ==
    /\ ~effectPending
    /\ nUpdates' = nUpdates + 1
    /\ users' = [i \in IndexSet(users) |->
                    IF users[i].id = updatedUser.id THEN updatedUser ELSE users[i]]
    /\ IF currentUser # Null /\ currentUser.id = updatedUser.id
       THEN currentUser' = updatedUser /\ effectPending' = TRUE
       ELSE UNCHANGED <<currentUser, effectPending>>
    /\ lastOp' = Op("updateUser", updatedUser.id, "ok")
    /\ UNCHANGED <<students, leaveApplications, exams, examSubmissions, authError, clock,
                   isDataValidated, fault>>

-----------------------------------------------------------------------------
(* Leave applications, App.tsx:262-321 *)

LeaveApplication(id, studentId, startDate, endDate, status, teacherComment) ==
    [id |-> id, studentId |-> studentId, startDate |-> startDate, endDate |-> endDate,
     status |-> status, teacherComment |-> teacherComment]

handleApplyForLeave(applicationData) ==
    /\ ~effectPending
    /\ clock' = clock + 1
    /\ leaveApplications' =
           Append(leaveApplications,
                  LeaveApplication(FreshId, applicationData.studentId,
                                   applicationData.startDate, applicationData.endDate,
                                   Pending, Undefined))
    /\ lastOp' = Op("applyForLeave", FreshId, "ok")
    /\ UNCHANGED <<currentUser, users, students, exams, examSubmissions, authError,
                   effectPending, nUpdates, isDataValidated, fault>>

\* line 291 and 308: teacher?.name || 'System'
teacherName ==
    LET t == FindIndex(users, LAMBDA u : u.role = Teacher)
    IN IF t # 0 THEN users[t].name ELSE "System"

\* lines 305-311
leaveRecordAbsent(dateString) ==
    AttendanceRecord(dateString, OnApprovedLeave, teacherName, "All Day", Absent)

leaveRecord(dateString) ==
    AttendanceRecord(dateString, OnApprovedLeave, teacherName, "All Day", Present)

\* lines 299-301
hasLeaveRecordForDayNever(newAttendanceRecords, dateString) == FALSE

hasLeaveRecordForDay(newAttendanceRecords, dateString) ==
    \E i \in IndexSet(newAttendanceRecords) :
        /\ newAttendanceRecords[i].date = dateString
        /\ newAttendanceRecords[i].subject = OnApprovedLeave

\* line 297: the loop condition d <= endDate
loopContinuesStrict(d, endDate) == d < endDate

loopContinues(d, endDate) == d <= endDate

\* lines 297-314: the loop from day d on, over the records collected so far
RECURSIVE leaveLoop(_, _, _)
leaveLoop(newAttendanceRecords, d, endDate) ==
    IF loopContinues(d, endDate)
    THEN LET dateString == ToISODateString(d)
         IN leaveLoop(IF ~hasLeaveRecordForDay(newAttendanceRecords, dateString)
                      THEN Append(newAttendanceRecords, leaveRecord(dateString))
                      ELSE newAttendanceRecords,
                      d + 1, endDate)
    ELSE newAttendanceRecords

\* lines 289-316: the student's attendance after the approval of application
synthesizedAttendance(studentToUpdate, application) ==
    leaveLoop(studentToUpdate.attendance,
              ParseUTCDate(application.startDate), ParseUTCDate(application.endDate))

\* line 273, falling back on the last application when none has the id
applicationIndexOrLast(applicationId) ==
    IF \E i \in IndexSet(leaveApplications) : leaveApplications[i].id = applicationId
    THEN FindIndex(leaveApplications, LAMBDA app : app.id = applicationId)
    ELSE Len(leaveApplications)

\* line 273: 0 for -1
applicationIndexOf(applicationId) ==
    FindIndex(leaveApplications, LAMBDA app : app.id = applicationId)

\* lines 288-318, lifting the student's block with the approval
newStudentsUnblocking(studentIndex, application) ==
    SetStudentAt(students, studentIndex,
        [students[studentIndex] EXCEPT
            !.attendance = synthesizedAttendance(students[studentIndex], application),
            !.isAccessBlocked = FALSE,
            !.blockReason = NoReason])

\* lines 288-318: newStudents, the copy of students with studentToUpdate at studentIndex
newStudents(studentIndex, application) ==
    SetStudentAt(students, studentIndex,
        [students[studentIndex] EXCEPT
            !.attendance = synthesizedAttendance(students[studentIndex], application)])

\* line 277, putting an application that is given the status it has back to Pending
updatedApplicationToggled(application, status, teacherComment) ==
    [application EXCEPT !.status = IF application.status = status THEN Pending ELSE status,
                        !.teacherComment = teacherComment]

\* line 277: { ...application, status, teacherComment }
updatedApplication(application, status, teacherComment) ==
    [application EXCEPT !.status = status, !.teacherComment = teacherComment]

handleUpdateLeaveStatus(applicationId, status, teacherComment) ==
    /\ ~effectPending
    /\ LET applicationIndex == applicationIndexOf(applicationId)
       IN IF applicationIndex = 0
          THEN /\ lastOp' = Op("updateLeaveStatus", applicationId, "unknown")
               /\ UNCHANGED <<leaveApplications, students>>
          ELSE LET application == leaveApplications[applicationIndex]
                   studentIndex == FindIndex(students, LAMBDA s : s.id = application.studentId)
               IN /\ leaveApplications' =
                         [leaveApplications EXCEPT ![applicationIndex] =
                             updatedApplication(application, status, teacherComment)]
                  /\ lastOp' = Op("updateLeaveStatus", applicationId, status)
                  /\ IF status = Approved /\ studentIndex # 0
                     THEN students' = newStudents(studentIndex, application)
                     ELSE UNCHANGED students
    /\ UNCHANGED <<currentUser, users, exams, examSubmissions, authError, effectPending,
                   clock, nUpdates, isDataValidated, fault>>

-----------------------------------------------------------------------------
(* Exams and submissions, App.tsx:323-372 *)

Question(id, correctAnswer) == [id |-> id, correctAnswer |-> correctAnswer]

\* isArray is Array.isArray(exam.questions); questions is <<>> when it is not an array
Exam(id, createdBy, questions, isArray) ==
    [id |-> id, createdBy |-> createdBy, questions |-> questions, isArray |-> isArray]

\* submission.answers[q.id]: undefined for a key the object does not have
AnswerAt(answers, questionId) ==
    IF questionId \in DOMAIN answers THEN answers[questionId] ELSE Undefined

\* lines 348-353, counting over the keys of the answers instead of the questions
correctAnswersByKey(exam, answers) ==
    Cardinality({k \in DOMAIN answers :
        \E i \in IndexSet(exam.questions) : exam.questions[i].correctAnswer = answers[k]})

\* lines 348-353
correctAnswers(exam, answers) ==
    CountSeq(exam.questions, LAMBDA q : q.correctAnswer = AnswerAt(answers, q.id))

\* Math.floor of num / den
MathFloor(num, den) == num \div den

\* Math.round of the non-negative num / den: the nearest integer, a half rounded up
MathRound(num, den) == (2 * num + den) \div (2 * den)

\* lines 356-364: Math.round(score)
examScore(exam, answers) ==
    IF Len(exam.questions) > 0
    THEN MathRound(correctAnswers(exam, answers) * 100, Len(exam.questions))
    ELSE 0

\* handleSaveExam taking the else branch of line 325 whatever the index
handleSaveExamAppends(examToSave) ==
    /\ ~effectPending
    /\ exams' = Append(exams, examToSave)
    /\ lastOp' = Op("saveExam", examToSave.id, "ok")
    /\ UNCHANGED <<currentUser, users, students, leaveApplications, examSubmissions,
                   authError, effectPending, clock, nUpdates, isDataValidated, fault>>

handleSaveExam(examToSave) ==
    /\ ~effectPending
    /\ LET index == FindIndex(exams, LAMBDA e : e.id = examToSave.id)
       IN IF index # 0
          THEN exams' = [exams EXCEPT ![index] = examToSave]
          ELSE exams' = Append(exams, examToSave)
    /\ lastOp' = Op("saveExam", examToSave.id, "ok")
    /\ UNCHANGED <<currentUser, users, students, leaveApplications, examSubmissions,
                   authError, effectPending, clock, nUpdates, isDataValidated, fault>>

\* handleDeleteExam without line 337
handleDeleteExamKeepsSubmissions(examId) ==
    /\ ~effectPending
    /\ exams' = FilterSeq(exams, LAMBDA e : e.id # examId)
    /\ lastOp' = Op("deleteExam", examId, "ok")
    /\ UNCHANGED <<currentUser, users, students, leaveApplications, examSubmissions,
                   authError, effectPending, clock, nUpdates, isDataValidated, fault>>

handleDeleteExam(examId) ==
    /\ ~effectPending
    /\ exams' = FilterSeq(exams, LAMBDA e : e.id # examId)
    /\ examSubmissions' = FilterSeq(examSubmissions, LAMBDA sub : sub.examId # examId)
    /\ lastOp' = Op("deleteExam", examId, "ok")
    /\ UNCHANGED <<currentUser, users, students, leaveApplications, authError,
                   effectPending, clock, nUpdates, isDataValidated, fault>>

\* line 343, without the test of Array.isArray(exam.questions)
submissionRejectedUnlessArray(index) ==
    index = 0 \/ currentUser = Null

\* line 343: !exam || !currentUser || !Array.isArray(exam.questions)
submissionRejected(index) ==
    index = 0 \/ currentUser = Null \/ ~exams[index].isArray

\* line 349 calls exam.questions.forEach, which throws a TypeError on a value that is
\* not an array
handleSubmitExam(submission) ==
    /\ ~effectPending
    /\ LET index == FindIndex(exams, LAMBDA e : e.id = submission.examId)
       IN IF submissionRejected(index)
          THEN /\ lastOp' = Op("submitExam", 0, "rejected")
               /\ UNCHANGED <<examSubmissions, clock, fault>>
          ELSE IF ~exams[index].isArray
          THEN /\ fault' = TypeError
               /\ lastOp' = Op("submitExam", 0, "thrown")
               /\ UNCHANGED <<examSubmissions, clock>>
          ELSE /\ UNCHANGED fault
               /\ clock' = clock + 1
               /\ examSubmissions' =
                      Append(examSubmissions,
                             [id |-> FreshId,
                              examId |-> submission.examId,
                              studentId |-> submission.studentId,
                              studentName |-> currentUser.name,
                              answers |-> submission.answers,
                              status |-> submission.status,
                              score |-> examScore(exams[index], submission.answers)])
               /\ lastOp' = Op("submitExam", FreshId, "ok")
    /\ UNCHANGED <<currentUser, users, students, leaveApplications, exams, authError,
                   effectPending, nUpdates, isDataValidated>>

handleDeleteSubmission(submissionId) ==
    /\ ~effectPending
    /\ examSubmissions' = FilterSeq(examSubmissions, LAMBDA sub : sub.id # submissionId)
    /\ lastOp' = Op("deleteSubmission", submissionId, "ok")
    /\ UNCHANGED <<currentUser, users, students, leaveApplications, exams, authError,
                   effectPending, clock, nUpdates, isDataValidated, fault>>

-----------------------------------------------------------------------------
(* What is on screen, App.tsx:375-492: the handlers a user can reach.  An       *)
(* exception that no handler catches unmounts the application.               *)

\* line 381
hasActivePass(studentData) == studentData.temporaryAccessExpires = "future"

Screen ==
    IF fault # NoFault THEN "unmounted"
    ELSE IF ~isDataValidated THEN "initializing"
    ELSE IF currentUser = Null THEN "auth"
    ELSE LET i == FindIndex(students, LAMBDA s : s.id = currentUser.id)
             c == FindIndex(students, LAMBDA s : s.id = currentUser.childId)
         IN IF currentUser.role = Student /\ i # 0
               /\ students[i].isAccessBlocked /\ ~hasActivePass(students[i])
            THEN "warning"
            ELSE IF currentUser.role = Teacher THEN "teacher"
            ELSE IF currentUser.role = Student THEN (IF i = 0 THEN "error" ELSE "student")
            ELSE IF currentUser.role = Parent THEN (IF c = 0 THEN "error" ELSE "parent")
            ELSE "error"

-----------------------------------------------------------------------------
(* The store after load: the collections of App.tsx:20-25 *)

TeacherUser == User(1, "Ms Tara", "teacher@school.com", Teacher, Undefined)
StudentUser == User(2, "Sam", "student@school.com", Student, Undefined)
SecondStudentUser ==
    [User(3, "Sid", "sid@school.com", Student, Undefined) EXCEPT !.mobile = "555-0103"]
ParentUser == User(4, "Pat", "parent@school.com", Parent, 2)

InitialUsers == <<TeacherUser, StudentUser, SecondStudentUser, ParentUser>>

\* a class record of day January (7 + i) 2024, the i-th of a sequence of statuses
ClassRecord(i, status) ==
    AttendanceRecord(<<2024, 1, 7 + i>>, "Mathematics", "Ms Tara", "09:05 AM", status)

ClassRecords(statuses) == [i \in IndexSet(statuses) |-> ClassRecord(i, statuses[i])]

\* attendance sequences a stored student starts with
AttendanceProfiles ==
    { ClassRecords(<<>>),
      ClassRecords(<<Absent>>),
      ClassRecords(<<Late, Absent>>),
      ClassRecords(<<Present, Present, Absent>>),
      ClassRecords(<<Present, Present, Late>>),
      ClassRecords(<<Present, Present, Present, Absent>>),
      Append(ClassRecords(<<Present, Absent, Absent>>),
             AttendanceRecord(<<2024, 1, 11>>, OnApprovedLeave, "Ms Tara", "All Day", Present)) }

\* isAccessBlocked, blockReason and temporaryAccessExpires of a stored student
BlockStates ==
    { <<FALSE, NoReason, Undefined>>,
      <<TRUE, LowAttendance, Undefined>>,
      <<TRUE, BehaviourIssue, Undefined>>,
      <<TRUE, BehaviourIssue, "future">>,
      <<TRUE, AttendanceAndBehaviour, "past">>,
      <<TRUE, NoReason, Undefined>> }

InitialStudents(attendance, block) ==
    << StudentRecord(2, "Sam", attendance, block[1], block[2], block[3]),
       StudentRecord(3, "Sid", ClassRecords(<<Present, Absent>>), FALSE, NoReason, Undefined) >>

\* (startDate, endDate) of a leave application
LeaveRanges ==
    { << <<2024, 1, 10>>, <<2024, 1, 12>> >>,
      << <<2024, 1, 12>>, <<2024, 1, 13>> >>,
      << <<2024, 2, 28>>, <<2024, 3, 1>> >>,
      << <<2024, 1, 12>>, <<2024, 1, 10>> >> }

LeaveData(studentIds, ranges) ==
    { [studentId |-> sid, startDate |-> r[1], endDate |-> r[2]] :
        sid \in studentIds, r \in ranges }

InitStore ==
    /\ users = InitialUsers
    /\ examSubmissions = <<>>
    /\ authError = NoError
    /\ effectPending = FALSE
    /\ clock = 0
    /\ nUpdates = 0
    /\ lastOp = Op("load", 0, "ok")
    /\ isDataValidated = TRUE
    /\ fault = NoFault

\* an exam of n questions, numbered from 1, whose correct answers alternate "A", "B"
ExamOf(id, n) ==
    Exam(id, 1, [q \in 1..n |-> Question(q, IF q % 2 = 1 THEN "A" ELSE "B")], TRUE)

\* the answers that get the first k questions of exam right and give `other` to the rest,
\* leaving them out when `other` is Undefined
SheetOf(exam, k, other) ==
    [q \in { j \in IndexSet(exam.questions) : j <= k \/ other # Undefined } |->
        IF q <= k THEN exam.questions[q].correctAnswer ELSE other]

Submission(examId, studentId, answers) ==
    [examId |-> examId, studentId |-> studentId, answers |-> answers, status |-> "Completed"]

-----------------------------------------------------------------------------
(* The leave handlers, called in any order on any stored attendance *)

InitLeave ==
    /\ InitStore
    /\ currentUser = Null
    /\ leaveApplications = <<>>
    /\ exams = <<>>
    /\ \E a \in AttendanceProfiles : students = InitialStudents(a, <<FALSE, NoReason, Undefined>>)

NextLeave ==
    \/ /\ clock < MaxLeaveApps
       /\ \E d \in LeaveData({2, 3}, LeaveRanges) : handleApplyForLeave(d)
    \/ \E id \in Ids(leaveApplications) \cup {UnknownId}, status \in {Approved, Rejected} :
          handleUpdateLeaveStatus(id, status, Undefined)

SpecLeave == InitLeave /\ [][NextLeave]_vars

-----------------------------------------------------------------------------
(* Accounts: signups, and sessions in which the user edits the own profile *)

\* the users a dashboard hands to onUpdateUser: the user it shows, with another
\* name, another email or another role
ProfileEdits(u) ==
    { [u EXCEPT !.name = "Renamed"] }
       \cup { [u EXCEPT !.email = e] : e \in {"nia@school.com", "teacher@school.com"} }
       \cup { [u EXCEPT !.role = r] : r \in {Student, Teacher} \ {u.role} }

AccountDetails ==
    { [name |-> "Nia", email |-> e, role |-> r, password |-> "pw", childEmail |-> Undefined] :
        e \in {"nia@school.com", "student@school.com"}, r \in {Student, Teacher} }

InitUsers ==
    /\ InitStore
    /\ currentUser = Null
    /\ exams = <<>>
    /\ leaveApplications = <<>>
    /\ students = InitialStudents(ClassRecords(<<Present>>), <<FALSE, NoReason, Undefined>>)

NextUsers ==
    \/ AccessBlockEffect
    \/ \E e \in {"teacher@school.com", "student@school.com", "nia@school.com"} :
          handleLogin(e, "pw")
    \/ handleLogout
    \/ /\ clock < MaxIds
       /\ \E details \in AccountDetails : handleSignup(details)
    \/ /\ Screen \in {"teacher", "student", "parent"}
       /\ nUpdates < MaxUpdates
       /\ \E u \in ProfileEdits(currentUser) : handleUpdateUser(u)

SpecUsers == InitUsers /\ [][NextUsers]_vars

-----------------------------------------------------------------------------
(* Access blocking: sessions of the stored users, with a teacher deciding on *)
(* a stored leave application between them                                   *)

StoredApplication ==
    LeaveApplication(50, 2, <<2024, 1, 10>>, <<2024, 1, 12>>, Pending, Undefined)

InitAccess ==
    /\ InitStore
    /\ currentUser = Null
    /\ exams = <<>>
    /\ \E a \in AttendanceProfiles, b \in BlockStates : students = InitialStudents(a, b)
    /\ leaveApplications = <<StoredApplication>>

NextAccess ==
    \/ AccessBlockEffect
    \/ \E e \in {"teacher@school.com", "student@school.com", "sid@school.com"},
          pass \in {"pw", "wrong"} : handleLogin(e, pass)
    \/ handleLogout
    \/ /\ Screen = "student"
       /\ clock < MaxIds
       /\ \E d \in LeaveData({currentUser.id}, { << <<2024, 1, 12>>, <<2024, 1, 13>> >> }) :
             handleApplyForLeave(d)
    \/ /\ Screen = "teacher"
       /\ \E id \in Ids(leaveApplications) \cup {UnknownId}, status \in {Approved, Rejected} :
             handleUpdateLeaveStatus(id, status, Undefined)

SpecAccess == InitAccess /\ [][NextAccess]_vars

-----------------------------------------------------------------------------
(* The exam handlers, called in any order in the session of a stored user *)

\* answer sheets: the first k answers of the longest exam right, the rest wrong or missing
AnswerSheets ==
    { SheetOf(ExamOf(1, MaxQuestions), k, other) :
        k \in 0..MaxQuestions, other \in {Undefined, "C"} }

InitExam ==
    /\ InitStore
    /\ currentUser \in {Null, StudentUser}
    /\ students = InitialStudents(<<>>, <<FALSE, NoReason, Undefined>>)
    /\ leaveApplications = <<>>
    /\ \E n \in 0..MaxQuestions : exams = <<ExamOf(1, n)>>

NextExam ==
    \/ handleSaveExam(ExamOf(2, 3))
    \/ \E id \in {1, 2} : handleDeleteExam(id)
    \/ /\ clock < MaxSubmissions
       /\ \E id \in {1, 2}, answers \in AnswerSheets :
             handleSubmitExam(Submission(id, 2, answers))
    \/ \E id \in Ids(examSubmissions) \cup {UnknownId} : handleDeleteSubmission(id)

SpecExam == InitExam /\ [][NextExam]_vars

-----------------------------------------------------------------------------
(* The exam handlers on exams and submissions that were in the store at start *)

\* an exam whose questions are not an array
BrokenExam == Exam(3, 1, <<>>, FALSE)

StoredExams == <<ExamOf(1, 2), ExamOf(2, 3), BrokenExam>>

\* the k-th stored submission, made for the exam examId
StoredSubmission(k, examId) ==
    [id |-> 60 + k, examId |-> examId, studentId |-> 2, studentName |-> "Sam",
     answers |-> SheetOf(ExamOf(1, 2), 1, Undefined), status |-> "Completed", score |-> 50]

\* the sequences of up to MaxStored submissions for the exams 1 and 2 and for an
\* exam that is not in the store
StoredSubmissionLists ==
    UNION { { [k \in 1..n |-> StoredSubmission(k, e[k])] : e \in [1..n -> {1, 2, 7}] } :
            n \in 0..MaxStored }

\* the answer sheets handed in on the stored exams: nothing right or both right
StoredExamSheets == { SheetOf(ExamOf(1, 2), k, Undefined) : k \in {0, 2} }

InitExamStore ==
    /\ users = InitialUsers
    /\ authError = NoError
    /\ effectPending = FALSE
    /\ clock = 0
    /\ nUpdates = 0
    /\ lastOp = Op("load", 0, "ok")
    /\ isDataValidated = TRUE
    /\ fault = NoFault
    /\ currentUser \in {Null, StudentUser}
    /\ students = InitialStudents(<<>>, <<FALSE, NoReason, Undefined>>)
    /\ leaveApplications = <<>>
    /\ exams = StoredExams
    /\ examSubmissions \in StoredSubmissionLists

NextExamStore ==
    \/ handleSaveExam(ExamOf(1, 0))
    \/ \E id \in Ids(exams) \cup {UnknownId} : handleDeleteExam(id)
    \/ /\ clock < MaxSubmissions
       /\ \E id \in Ids(exams) \cup {UnknownId}, answers \in StoredExamSheets :
             handleSubmitExam(Submission(id, 2, answers))
    \/ \E id \in Ids(examSubmissions) \cup {UnknownId} : handleDeleteSubmission(id)

SpecExamStore == InitExamStore /\ [][NextExamStore]_vars

-----------------------------------------------------------------------------
(* Start of the application on what the store holds, App.tsx:20-146: the     *)
(* first commit runs the validation effect (36-72), the migration effect     *)
(* (77-107) and the access-block effect (114-146) in this order, each on the *)
(* values of the first render; what they set is rendered afterwards.  The    *)
(* migration effect writes enableScanOnLogin only, which the records here do *)
(* not keep.                                                                 *)

\* a stored value that is not an array
NotAnArray == [i \in {0} |-> "corrupted"]

\* Array.isArray
IsArray(value) == 0 \notin DOMAIN value

\* the defaults imported at line 11
MOCK_USERS == <<TeacherUser, StudentUser, ParentUser>>
MOCK_STUDENTS == <<StudentRecord(2, "Sam", ClassRecords(<<Present>>), FALSE, NoReason, Undefined)>>
MOCK_EXAMS == <<ExamOf(1, 4)>>

\* lines 39-63: the value a collection has after the validation effect
Validated(value, default) == IF IsArray(value) THEN value ELSE default

\* lines 39-63: dataWasCorrupted
dataWasCorrupted ==
    \E value \in {users, students, leaveApplications, exams, examSubmissions} :
        ~IsArray(value)

\* line 116 on the first commit: students.findIndex is not a function
MountThrows ==
    /\ currentUser # Null
    /\ currentUser.role = Student
    /\ ~IsArray(students)

MountEffects ==
    /\ ~isDataValidated
    /\ fault = NoFault
    /\ IF MountThrows
       THEN /\ fault' = TypeError
            /\ lastOp' = Op("mount", 0, "thrown")
            /\ UNCHANGED <<currentUser, users, students, leaveApplications, exams,
                           examSubmissions, isDataValidated, effectPending>>
       ELSE /\ users' = Validated(users, MOCK_USERS)
            /\ students' = IF IsArray(students)
                           THEN AccessBlockEvaluator(currentUser, students)
                           ELSE Validated(students, MOCK_STUDENTS)
            /\ leaveApplications' = Validated(leaveApplications, <<>>)
            /\ exams' = Validated(exams, MOCK_EXAMS)
            /\ examSubmissions' = Validated(examSubmissions, <<>>)
            /\ currentUser' = IF dataWasCorrupted THEN Null ELSE currentUser
            /\ effectPending' = (dataWasCorrupted /\ currentUser # Null)
            /\ isDataValidated' = TRUE
            /\ lastOp' = Op("mount", 0, IF dataWasCorrupted THEN "reset" ELSE "kept")
            /\ UNCHANGED fault
    /\ UNCHANGED <<authError, clock, nUpdates>>

\* a stored application of a student that the students collection does not have
OrphanApplication ==
    LeaveApplication(51, 9, <<2024, 1, 10>>, <<2024, 1, 11>>, Pending, Undefined)

InitLoad ==
    /\ currentUser \in {Null, StudentUser, TeacherUser}
    /\ users \in {InitialUsers, NotAnArray}
    /\ students \in { InitialStudents(ClassRecords(<<Absent>>), <<FALSE, NoReason, Undefined>>),
                       InitialStudents(ClassRecords(<<Present, Present, Present, Absent>>),
                                       <<FALSE, NoReason, Undefined>>),
                       NotAnArray }
    /\ leaveApplications \in {<<StoredApplication, OrphanApplication>>, NotAnArray}
    /\ exams \in {StoredExams, NotAnArray}
    /\ examSubmissions \in {<<StoredSubmission(1, 1)>>, NotAnArray}
    /\ authError = NoError
    /\ effectPending = FALSE
    /\ clock = 0
    /\ nUpdates = 0
    /\ lastOp = Op("start", 0, "ok")
    /\ isDataValidated = FALSE
    /\ fault = NoFault

NextLoad ==
    \/ MountEffects
    \/ AccessBlockEffect
    \/ /\ Screen = "auth"
       /\ \E e \in {"teacher@school.com", "student@school.com"} : handleLogin(e, "pw")
    \/ /\ Screen \in {"teacher", "student", "warning"}
       /\ handleLogout
    \/ /\ Screen = "teacher"
       /\ \E id \in Ids(leaveApplications) \cup {UnknownId},
             d \in { <<Approved, "Noted">>, <<Rejected, Undefined>> } :
             handleUpdateLeaveStatus(id, d[1], d[2])

SpecLoad == InitLoad /\ [][NextLoad]_vars

-----------------------------------------------------------------------------
(* The application: every handler, reached from the screen that offers it *)

Init ==
    /\ InitStore
    /\ currentUser = Null
    /\ exams = <<ExamOf(1, 4)>>
    /\ \E b \in BlockStates :
          students = InitialStudents(ClassRecords(<<Present, Present, Absent>>), b)
    /\ leaveApplications = <<StoredApplication>>

SignupDetails ==
    { [name |-> "Nia", email |-> e, role |-> r, password |-> "pw", childEmail |-> c] :
        e \in {"nia@school.com", "student@school.com"},
        r \in UserRole,
        c \in {Undefined, "", "student@school.com", "teacher@school.com"} }

\* the edit a dashboard makes to the user it shows
UserEdits(u) == { [u EXCEPT !.name = "Renamed"] }

Next ==
    \/ AccessBlockEffect
    \/ \E e \in {"teacher@school.com", "student@school.com"} : handleLogin(e, "pw")
    \/ \E role \in UserRole : handleSocialLogin(role)
    \/ \E p \in { <<"nia@school.com", "email">>, <<"555-0103", "mobile">> } :
          handleProviderLogin(p[1], p[2])
    \/ handleLogout
    \/ /\ clock < MaxIds
       /\ \E details \in SignupDetails : handleSignup(details)
    \/ /\ Screen \in {"teacher", "student", "parent"}
       /\ nUpdates < MaxUpdates
       /\ \E u \in UserEdits(currentUser) : handleUpdateUser(u)
    \/ /\ Screen = "student"
       /\ clock < MaxIds
       /\ handleApplyForLeave([studentId |-> currentUser.id,
                               startDate |-> <<2024, 1, 12>>, endDate |-> <<2024, 1, 13>>])
    \/ /\ Screen = "teacher"
       /\ \E id \in Ids(leaveApplications) \cup {UnknownId},
             d \in { <<Approved, "Noted">>, <<Rejected, Undefined>> } :
             handleUpdateLeaveStatus(id, d[1], d[2])
    \/ /\ Screen = "teacher"
       /\ handleSaveExam(ExamOf(1, 0))
    \/ /\ Screen = "teacher"
       /\ handleDeleteExam(1)
    \/ /\ Screen = "student"
       /\ clock < MaxIds
       /\ \E id \in {1, 2} :
             handleSubmitExam(Submission(id, currentUser.id, SheetOf(ExamOf(1, 4), 3, "B")))
    \/ /\ Screen = "teacher"
       /\ \E id \in Ids(examSubmissions) \cup {UnknownId} : handleDeleteSubmission(id)

Spec == Init /\ [][Next]_vars

-----------------------------------------------------------------------------
(* Properties *)

StudentIndexSet == IndexSet(students)

\* the number of records of an attendance sequence with status Present
PresentCountOf(attendance) ==
    Cardinality({k \in IndexSet(attendance) : attendance[k].status = Present})

\* the attendance percentage is below 75
Below75(attendance) ==
    Len(attendance) > 0 /\ 100 * PresentCountOf(attendance) < 75 * Len(attendance)

\* the records of an attendance sequence that mark an approved leave on a date
LeaveRecordsOn(attendance, date) ==
    {k \in IndexSet(attendance) :
        attendance[k].subject = OnApprovedLeave /\ attendance[k].date = date}

\* the calendar day after a date
NextCalendarDay(date) ==
    IF date[3] < DaysInMonth(date[1], date[2]) THEN <<date[1], date[2], date[3] + 1>>
    ELSE IF date[2] < 12 THEN <<date[1], date[2] + 1, 1>>
    ELSE <<date[1] + 1, 1, 1>>

\* date a is not after date b
DateLeq(a, b) ==
    \/ a[1] < b[1]
    \/ a[1] = b[1] /\ a[2] < b[2]
    \/ a[1] = b[1] /\ a[2] = b[2] /\ a[3] <= b[3]

\* the calendar days from a to b inclusive
RECURSIVE CalendarDays(_, _)
CalendarDays(a, b) ==
    IF DateLeq(a, b) THEN {a} \cup CalendarDays(NextCalendarDay(a), b) ELSE {}

\* the step is the access-block effect, run for the student at index i
EffectStepFor(i) ==
    /\ lastOp'.op = "accessBlockEffect"
    /\ effectPending
    /\ currentUser # Null
    /\ currentUser.role = Student
    /\ i \in StudentIndexSet
    /\ students[i].id = currentUser.id
    /\ \A j \in 1..(i - 1) : students[j].id # currentUser.id

\* the step is updateLeaveStatus(id, status, _) on the application at index a
LeaveStepFor(a, status) ==
    /\ lastOp' = Op("updateLeaveStatus", leaveApplications[a].id, status)
    /\ \A j \in 1..(a - 1) : leaveApplications[j].id # leaveApplications[a].id
    /\ leaveApplications' # leaveApplications \/ students' # students \/ lastOp' # lastOp

\* C1: no step changes a student's isAccessBlocked from true to false, turns
\* 'Attendance & Behaviour' into another reason or a non-null reason into null;
\* students keep their place in the collection.
C1_BlockNeverCleared ==
    [][\A i \in StudentIndexSet :
          /\ i <= Len(students')
          /\ students'[i].id = students[i].id
          /\ students[i].isAccessBlocked => students'[i].isAccessBlocked
          /\ students[i].blockReason = AttendanceAndBehaviour
                => students'[i].blockReason = AttendanceAndBehaviour
          /\ students[i].blockReason # NoReason => students'[i].blockReason # NoReason]_vars

\* C1 witness: the effect has run at the login of a student who is blocked for low
\* attendance and whom an approved leave has brought to 75% or more; the block stands.
C1_Witness ==
    /\ lastOp = Op("accessBlockEffect", 2, "none")
    /\ students[1].isAccessBlocked
    /\ students[1].blockReason = LowAttendance
    /\ ~Below75(students[1].attendance)
    /\ LeaveRecordsOn(students[1].attendance, <<2024, 1, 10>>) # {}

\* C2: no student has two 'On Approved Leave' records for the same date.
C2_NoDuplicateLeaveDays ==
    \A i \in StudentIndexSet :
        \A k, l \in IndexSet(students[i].attendance) :
            /\ students[i].attendance[k].subject = OnApprovedLeave
            /\ students[i].attendance[l].subject = OnApprovedLeave
            /\ students[i].attendance[k].date = students[i].attendance[l].date
            => k = l

\* C2 witness: two applications of student 2 whose ranges share January 12 are both
\* approved, and the day is marked once.
C2_Witness ==
    /\ Len(leaveApplications) = 2
    /\ \A a \in 1..2 : leaveApplications[a].studentId = 2
                       /\ leaveApplications[a].status = Approved
    /\ leaveApplications[1].endDate = <<2024, 1, 12>>
    /\ leaveApplications[2].startDate = <<2024, 1, 12>>
    /\ leaveApplications[2].endDate = <<2024, 1, 13>>
    /\ Cardinality(LeaveRecordsOn(students[1].attendance, <<2024, 1, 12>>)) = 1
    /\ Cardinality(LeaveRecordsOn(students[1].attendance, <<2024, 1, 13>>)) = 1

\* C3: approving an application with startDate <= endDate whose student has no leave
\* record on any day of the range appends one record per calendar day of the range,
\* each Present and 'On Approved Leave', and nothing else; approving it again adds none.
C3_ApprovalAddsOneRecordPerDay ==
    [][\A a \in IndexSet(leaveApplications), i \in StudentIndexSet :
          LET app  == leaveApplications[a]
              days == CalendarDays(app.startDate, app.endDate)
              old  == students[i].attendance
              new  == students'[i].attendance
          IN  /\ LeaveStepFor(a, Approved)
              /\ students[i].id = app.studentId
              /\ \A j \in 1..(i - 1) : students[j].id # app.studentId
              /\ DateLeq(app.startDate, app.endDate)
              /\ \A d \in days : LeaveRecordsOn(old, d) = {}
              => /\ Len(new) = Len(old) + Cardinality(days)
                 /\ SubSeq(new, 1, Len(old)) = old
                 /\ \A k \in (Len(old) + 1)..Len(new) :
                       /\ new[k].status = Present
                       /\ new[k].subject = OnApprovedLeave
                       /\ new[k].date \in days
                 /\ \A d \in days : Cardinality(LeaveRecordsOn(new, d)) = 1
                 /\ synthesizedAttendance(students'[i], app) = new]_vars

\* C3 witness: the three days 2024-01-10..12 have just been approved for student 2,
\* whose attendance now ends with the three leave records.
C3_Witness ==
    /\ lastOp.op = "updateLeaveStatus"
    /\ lastOp.arg = Approved
    /\ \E a \in IndexSet(leaveApplications) :
          /\ leaveApplications[a].id = lastOp.id
          /\ leaveApplications[a].studentId = 2
          /\ leaveApplications[a].startDate = <<2024, 1, 10>>
          /\ leaveApplications[a].endDate = <<2024, 1, 12>>
    /\ LET att == students[1].attendance
       IN /\ Len(att) = 6
          /\ att[3].subject = "Mathematics"
          /\ \A k \in 4..6 : att[k] = leaveRecord(<<2024, 1, 6 + k>>)

\* C4: no updateLeaveStatus call lowers a student's attendance percentage, and a
\* student at 75% or more before the call is at 75% or more after it.
C4_PercentageNeverDecreases ==
    [][lastOp'.op = "updateLeaveStatus"
          => \A i \in StudentIndexSet :
                LET old == students[i].attendance
                    new == students'[i].attendance
                    pct(att) == IF Len(att) = 0 THEN <<100, 1>>
                                ELSE <<100 * PresentCountOf(att), Len(att)>>
                IN /\ pct(old)[1] * pct(new)[2] <= pct(new)[1] * pct(old)[2]
                   /\ ~Below75(old) => ~Below75(new)]_vars

\* C4 witness: an approval has just raised student 2 from below 75% to 75% or more.
C4_Witness ==
    /\ lastOp.op = "updateLeaveStatus"
    /\ lastOp.arg = Approved
    /\ LET att == students[1].attendance
       IN /\ Len(att) > 3
          /\ Below75(SubSeq(att, 1, 3))
          /\ \A k \in 4..Len(att) : att[k].subject = OnApprovedLeave
          /\ ~Below75(att)

\* C5: when the effect runs for a student below 75%: an unblocked student becomes
\* blocked for 'Low Attendance'; one blocked for 'Behaviour Issue' stays blocked with
\* 'Attendance & Behaviour'; one blocked for 'Low Attendance' or 'Attendance &
\* Behaviour' causes no write to the students collection.
C5_LowAttendanceBranches ==
    [][\A i \in StudentIndexSet :
          EffectStepFor(i) /\ Below75(students[i].attendance)
          => /\ ~students[i].isAccessBlocked
                => /\ students'[i].isAccessBlocked
                   /\ students'[i].blockReason = LowAttendance
             /\ students[i].isAccessBlocked /\ students[i].blockReason = BehaviourIssue
                => /\ students'[i].isAccessBlocked
                   /\ students'[i].blockReason = AttendanceAndBehaviour
             /\ /\ students[i].isAccessBlocked
                /\ students[i].blockReason \in {LowAttendance, AttendanceAndBehaviour}
                => /\ lastOp'.arg = "none"
                   /\ students' = students]_vars

\* C5 witness: the effect has just written 'Attendance & Behaviour' for student 2,
\* who is below 75% and still blocked.
C5_Witness ==
    /\ lastOp = Op("accessBlockEffect", 2, "write")
    /\ Below75(students[1].attendance)
    /\ students[1].isAccessBlocked
    /\ students[1].blockReason = AttendanceAndBehaviour

\* C6 as claimed: after the effect runs for a student with N > 0 records and none
\* Present, the student's blockReason is 'Low Attendance'.
C6_AlwaysLowAttendanceReason ==
    [][\A i \in StudentIndexSet :
          /\ EffectStepFor(i)
          /\ Len(students[i].attendance) > 0
          /\ PresentCountOf(students[i].attendance) = 0
          => students'[i].blockReason = LowAttendance]_vars

\* C6 amended: after the effect runs for a student with N > 0 records and none
\* Present, the student is blocked; the blockReason is 'Low Attendance' if the student
\* was not blocked before, 'Attendance & Behaviour' if the student was blocked for
\* 'Behaviour Issue', and the reason it was for any other blocked student.
C6_ReasonAfterZeroPresent ==
    [][\A i \in StudentIndexSet :
          /\ EffectStepFor(i)
          /\ Len(students[i].attendance) > 0
          /\ PresentCountOf(students[i].attendance) = 0
          => /\ students'[i].isAccessBlocked
             /\ students'[i].blockReason =
                   IF ~students[i].isAccessBlocked THEN LowAttendance
                   ELSE IF students[i].blockReason = BehaviourIssue
                   THEN AttendanceAndBehaviour
                   ELSE students[i].blockReason]_vars

\* C6 witness: the effect has just blocked student 2, who has records and none
\* Present, for 'Low Attendance'.
C6_Witness ==
    /\ lastOp = Op("accessBlockEffect", 2, "write")
    /\ Len(students[1].attendance) > 0
    /\ PresentCountOf(students[1].attendance) = 0
    /\ students[1].blockReason = LowAttendance

\* C7: when the effect runs for a student with no records or with 75% or more
\* Present, it writes nothing and the students collection is unchanged.
C7_NotLowLeavesStudents ==
    [][\A i \in StudentIndexSet :
          EffectStepFor(i) /\ ~Below75(students[i].attendance)
          => /\ lastOp'.arg = "none"
             /\ students' = students]_vars

\* C7 witness: the effect has just run for student 2, who has exactly 3 of 4 records
\* Present and is blocked, and wrote nothing.
C7_Witness ==
    /\ lastOp = Op("accessBlockEffect", 2, "none")
    /\ Len(students[1].attendance) = 4
    /\ PresentCountOf(students[1].attendance) = 3
    /\ students[1].isAccessBlocked

\* C8: once the effect has run, running it again on the same students collection for
\* the same user writes nothing and yields the same collection.
C8_EvaluatorIdempotent ==
    [][lastOp'.op = "accessBlockEffect" /\ effectPending
          => /\ ~EffectWrites(currentUser', students')
             /\ AccessBlockEvaluator(currentUser', students') = students']_vars

\* C8 witness: the effect has just written to the students collection.
C8_Witness ==
    /\ lastOp = Op("accessBlockEffect", 2, "write")
    /\ ~effectPending
    /\ students[1].isAccessBlocked

\* the number of questions of an exam that the answers match
MatchCountOf(exam, answers) ==
    Cardinality({q \in IndexSet(exam.questions) :
        /\ exam.questions[q].id \in DOMAIN answers
        /\ answers[exam.questions[q].id] = exam.questions[q].correctAnswer})

\* the integer r with r <= num / den + 1/2 < r + 1, which lies within 1 of num / den
RoundHalfUpOf(num, den) ==
    CHOOSE r \in (num \div den)..(num \div den + 1) :
        2 * den * r <= 2 * num + den /\ 2 * num + den < 2 * den * (r + 1)

C10_ScoreInRange ==
    \A k \in IndexSet(examSubmissions) : examSubmissions[k].score \in 0..100

\* C10 witness: the store holds a submission to an exam without questions whose
\* answers name questions the exam does not have, scored 0.
C10_Witness ==
    /\ Len(examSubmissions) = 1
    /\ Len(exams) > 0
    /\ Len(exams[1].questions) = 0
    /\ examSubmissions[1].examId = exams[1].id
    /\ DOMAIN examSubmissions[1].answers # {}
    /\ examSubmissions[1].score = 0

\* the number of indices up to i in a set of indices
RankIn(kept, i) == Cardinality({j \in kept : j <= i})

\* t is s without the elements at the indices outside kept, in the order of s
IsSubsequenceAt(t, s, kept) ==
    /\ Len(t) = Cardinality(kept)
    /\ \A i \in kept : t[RankIn(kept, i)] = s[i]

\* C11: deleteExam(examId) leaves exactly the exams with another id and exactly the
\* submissions with another examId, each unchanged and in the order they had.
C11_DeleteExamCascades ==
    [][lastOp'.op = "deleteExam"
          => /\ IsSubsequenceAt(exams', exams,
                                 {i \in IndexSet(exams) : exams[i].id # lastOp'.id})
             /\ IsSubsequenceAt(examSubmissions', examSubmissions,
                                 {i \in IndexSet(examSubmissions) :
                                     examSubmissions[i].examId # lastOp'.id})]_vars

\* C11 witness: deleteExam(1) has just run: exam 1 is gone, and of the stored
\* submissions only the second, made for exam 2, is left.
C11_Witness ==
    /\ lastOp = Op("deleteExam", 1, "ok")
    /\ Ids(exams) = {2, 3}
    /\ examSubmissions = <<StoredSubmission(2, 2)>>

\* C12: a signup with role Parent whose childEmail is missing or is the email of no
\* Student-role user sets an auth error and leaves users, students and currentUser as
\* they were; a Parent signup that adds a user gives it the id of the Student-role
\* user with that email as childId.
C12_ParentSignupNeedsChild ==
    [][\A details \in SignupDetails :
          /\ lastOp'.op = "signup"
          /\ details.role = Parent
          /\ handleSignup(details)
          => LET children == {i \in IndexSet(users) :
                                 /\ users[i].email = details.childEmail
                                 /\ users[i].role = Student}
             IN /\ details.childEmail \in {Undefined, ""} \/ children = {}
                   => /\ authError' # NoError
                      /\ users' = users
                      /\ students' = students
                      /\ currentUser' = currentUser
                /\ users' # users
                   => /\ Len(users') = Len(users) + 1
                      /\ SubSeq(users', 1, Len(users)) = users
                      /\ Last(users').role = Parent
                      /\ \E i \in children : Last(users').childId = users[i].id
                      /\ students' = students]_vars

\* C12 witness: a Parent signup that named the email of a teacher as childEmail has
\* just failed, and nobody was added or logged in.
C12_Witness ==
    /\ lastOp = Op("signup", 0, "error")
    /\ authError = NoStudentAccount
    /\ users = InitialUsers
    /\ currentUser = Null

\* C13: submitExam for an exam that is not in the store, for an exam whose questions
\* are not an array, or with nobody logged in changes no collection, nor the current
\* user, and throws nothing.
C13_RejectedSubmissionIsNoOp ==
    [][\A id \in Ids(exams) \cup {UnknownId}, answers \in StoredExamSheets :
          /\ lastOp'.op = "submitExam"
          /\ handleSubmitExam(Submission(id, 2, answers))
          /\ \/ currentUser = Null
             \/ \A i \in IndexSet(exams) : exams[i].id = id => ~exams[i].isArray
          => /\ examSubmissions' = examSubmissions
             /\ exams' = exams
             /\ users' = users
             /\ students' = students
             /\ leaveApplications' = leaveApplications
             /\ currentUser' = currentUser
             /\ fault' = NoFault]_vars

\* C13 witness: with a student logged in and the exam whose questions are not an
\* array in the store, a submission has just been rejected and the store holds the
\* three submissions it held at the start.
C13_Witness ==
    /\ lastOp = Op("submitExam", 0, "rejected")
    /\ currentUser = StudentUser
    /\ exams = StoredExams
    /\ Len(examSubmissions) = 3
    /\ fault = NoFault

\* C14: updateLeaveStatus with an id that no application has changes neither the
\* leave applications nor the students, whichever status it is given.
C14_UnknownApplicationIsNoOp ==
    [][/\ lastOp'.op = "updateLeaveStatus"
       /\ lastOp'.id \notin Ids(leaveApplications)
       => /\ leaveApplications' = leaveApplications
          /\ students' = students]_vars

\* C14 witness: updateLeaveStatus has just run with an id that no application has,
\* while a pending application of student 2 is in the store, and student 2 has no
\* record of an approved leave.
C14_Witness ==
    /\ lastOp = Op("updateLeaveStatus", UnknownId, "unknown")
    /\ Len(leaveApplications) > 0
    /\ Last(leaveApplications).status = Pending
    /\ Last(leaveApplications).studentId = 2
    /\ \A k \in IndexSet(students[1].attendance) :
          students[1].attendance[k].subject # OnApprovedLeave

\* C15: updateLeaveStatus on an application whose studentId no student has changes
\* neither the leave applications nor the students.
C15_UnknownStudentIsNoOp ==
    [][lastOp'.op = "updateLeaveStatus"
       => \A a \in IndexSet(leaveApplications) :
             /\ LeaveStepFor(a, lastOp'.arg)
             /\ leaveApplications[a].studentId \notin Ids(students)
             => /\ leaveApplications' = leaveApplications
                /\ students' = students]_vars

\* each student of t is the student of s at the same place, but for the block fields
SameStudentsButBlocks(t, s) ==
    /\ Len(t) = Len(s)
    /\ \A i \in IndexSet(s) :
          [t[i] EXCEPT !.isAccessBlocked = FALSE, !.blockReason = NoReason]
             = [s[i] EXCEPT !.isAccessBlocked = FALSE, !.blockReason = NoReason]

\* C17: at the start, each collection that is not an array is replaced by its
\* default and the other collections are left as they are, and the current user
\* becomes null if any collection was replaced; if all five are arrays none is
\* replaced and the current user is kept.
C17_LoadResetsCorruptedOnly ==
    [][~isDataValidated /\ lastOp'.op = "mount"
       => /\ users' = IF IsArray(users) THEN users ELSE MOCK_USERS
          /\ leaveApplications' = IF IsArray(leaveApplications) THEN leaveApplications ELSE <<>>
          /\ exams' = IF IsArray(exams) THEN exams ELSE MOCK_EXAMS
          /\ examSubmissions' = IF IsArray(examSubmissions) THEN examSubmissions ELSE <<>>
          /\ ~IsArray(students) => students' = MOCK_STUDENTS
          /\ IsArray(students) /\ dataWasCorrupted => students' = students
          /\ IsArray(students) /\ ~dataWasCorrupted => SameStudentsButBlocks(students', students)
          /\ currentUser' = IF dataWasCorrupted THEN Null ELSE currentUser]_vars

\* C16: an application enters the collection only by applyForLeave, at the end and
\* with status 'Pending'; the applications already there keep their place and id,
\* and one whose status is not 'Pending' does not get status 'Pending' again.
C16_StatusMonotonic ==
    [][/\ Len(leaveApplications') >= Len(leaveApplications)
       /\ \A i \in IndexSet(leaveApplications) :
             /\ leaveApplications'[i].id = leaveApplications[i].id
             /\ leaveApplications[i].status # Pending
                => leaveApplications'[i].status # Pending
       /\ \A i \in (Len(leaveApplications) + 1)..Len(leaveApplications') :
             /\ lastOp'.op = "applyForLeave"
             /\ leaveApplications'[i].status = Pending]_vars

\* C16 witness: the only application has just been rejected after it had been
\* approved: its student has the record of the approved leave.
C16_Witness ==
    /\ Len(leaveApplications) = 1
    /\ lastOp = Op("updateLeaveStatus", leaveApplications[1].id, Rejected)
    /\ leaveApplications[1].status = Rejected
    /\ \E i \in IndexSet(students) :
          /\ students[i].id = leaveApplications[1].studentId
          /\ \E k \in IndexSet(students[i].attendance) :
                students[i].attendance[k].subject = OnApprovedLeave

\* C18: no two users of the users collection have the same email.
C18_EmailsPairwiseDistinct ==
    \A i, j \in IndexSet(users) : i # j => users[i].email # users[j].email

\* C19: the access-block effect runs for a Student-role current user only as the
\* step that follows a login or signup of that user, never after another operation.
C19_EvaluatorOnlyAfterLogin ==
    [][/\ lastOp'.op = "accessBlockEffect"
       /\ currentUser # Null
       /\ currentUser.role = Student
       => /\ lastOp.op \in {"login", "socialLogin", "providerLogin", "signup"}
          /\ lastOp.arg = "ok"]_vars

\* C20: the student dashboard is never rendered for a current user whose student
\* has attendance below 75% and no active temporary access pass.
C20_NoDashboardBelowThreshold ==
    \A i \in IndexSet(students) :
       /\ currentUser # Null
       /\ currentUser.role = Student
       /\ i = FindIndex(students, LAMBDA s : s.id = currentUser.id)
       /\ isLowAttendance(students[i])
       /\ ~hasActivePass(students[i])
       => Screen # "student"

StudentUsersWithId(id) ==
    {i \in IndexSet(users) : users[i].role = Student /\ users[i].id = id}
StudentsWithId(id) == {i \in IndexSet(students) : students[i].id = id}

\* C22: every Student-role user has exactly one student with its id, and every
\* student has exactly one Student-role user with its id.
C22_UsersStudentsOneToOne ==
    /\ \A i \in IndexSet(users) :
          users[i].role = Student => Cardinality(StudentsWithId(users[i].id)) = 1
    /\ \A i \in IndexSet(students) :
          Cardinality(StudentUsersWithId(students[i].id)) = 1

\* C23: every submission has the examId of an exam that is in the exams collection,
\* and no two exams of the collection have the same id.
C23_SubmissionsReferToExams ==
    /\ \A k \in IndexSet(examSubmissions) : examSubmissions[k].examId \in Ids(exams)
    /\ \A i, j \in IndexSet(exams) : i # j => exams[i].id # exams[j].id

\* C23 witness: saveExam has just replaced exam 2, which has a submission, while
\* another exam is in the collection.
C23_Witness ==
    /\ lastOp = Op("saveExam", 2, "ok")
    /\ Len(exams) = 2
    /\ \E k \in IndexSet(examSubmissions) : examSubmissions[k].examId = 2

\* C24: updateLeaveStatus with 'Rejected' leaves the students as they are, also for
\* an application that was approved before; with 'Approved' it changes nothing of
\* the students but the attendance of the application's student, whose former
\* records stay as the prefix of the new attendance; either way every other
\* application is left as it is.
C24_UpdateLeaveStatusFrame ==
    [][lastOp'.op = "updateLeaveStatus"
       => \A a \in IndexSet(leaveApplications) :
             LeaveStepFor(a, lastOp'.arg)
             => /\ Len(leaveApplications') = Len(leaveApplications)
                /\ \A b \in IndexSet(leaveApplications) \ {a} :
                      leaveApplications'[b] = leaveApplications[b]
                /\ Len(students') = Len(students)
                /\ lastOp'.arg = Rejected => students' = students
                /\ lastOp'.arg = Approved
                   => \A i \in StudentIndexSet :
                         LET old == students[i].attendance
                             new == students'[i].attendance
                         IN IF /\ students[i].id = leaveApplications[a].studentId
                               /\ \A j \in 1..(i - 1) :
                                     students[j].id # leaveApplications[a].studentId
                            THEN /\ [students'[i] EXCEPT !.attendance = old] = students[i]
                                 /\ Len(new) >= Len(old)
                                 /\ SubSeq(new, 1, Len(old)) = old
                            ELSE students'[i] = students[i]]_vars

\* C24 witness: the stored application of student 2 has just been rejected after
\* it had been approved: student 2, who is blocked and holds a pass, still has the
\* leave records, and the application student 2 made since is still pending.
C24_Witness ==
    /\ lastOp = Op("updateLeaveStatus", StoredApplication.id, Rejected)
    /\ Len(leaveApplications) = 2
    /\ leaveApplications[1].status = Rejected
    /\ leaveApplications[2].status = Pending
    /\ students[1].isAccessBlocked
    /\ LeaveRecordsOn(students[1].attendance, <<2024, 1, 10>>) # {}

====
